---------------------------- MODULE Spec2Model ----------------------------
(***************************************************************************)
(* netgrep: print the lines of the target files that hold a token lying    *)
(* inside one of the given networks (src/netgrep.py).                      *)
(*                                                                         *)
(* Text is modelled by what the ipaddress parsers read in it:              *)
(*   [k |-> "txt"]               text that is no address                   *)
(*   [k |-> "addr", v, a]        a bare address of family v                *)
(*   [k |-> "cidr", v, a, p]     "<address>/<prefix length>"               *)
(*   [k |-> "mask", v, a, m]     "<address>/<dotted mask>"                 *)
(* and a parsed network is [k |-> "net", v, a, p].  Addresses are          *)
(* IPV4LENGTH and IPV6LENGTH bits wide (32 and 128 in the program).        *)
(* Positions in a line are 0-based, as in the program; sequences are       *)
(* 1-based, so position i is element i + 1.                                *)
(***************************************************************************)
EXTENDS Integers, Sequences, FiniteSets, TLC

\* Address widths of the two families (scaled down from 32 and 128).
IPV4LENGTH == 3
IPV6LENGTH == 2
\* The longest line, in tokens.
MaxTokens == 3
\* The longest list of network strings.
MaxStrings == 3
\* The longest list of target files and the longest file, in lines.
MaxFiles == 3
MaxLines == 2

VARIABLES
  pc,                \* position in main / _search_files
  color,             \* args.color
  COLORAMA_IMPORTED, \* whether the colorama import succeeded
  colorize,          \* main's local: "unbound", "true" or "false"
  notice,            \* whether the colorama notice was printed
  network_strings,   \* the strings handed to _clean_up_networks
  diagnostics,       \* the strings _clean_up_networks reported, in order
  ipv4_networks,     \* main's IPv4 target list
  ipv6_networks,     \* main's IPv6 target list
  built,             \* history: the two lists as _clean_up_networks returned them
  target_files,      \* the target files: [openable, nlines]
  fidx,              \* index (0-based) of the for loop over the files
  target_file,       \* _search_files' local: 0 is unbound, n the handle of file n
  count,             \* _search_files' line counter
  line,              \* history: the tokens of the line last read, as read
  line_tokens,       \* _search_files' token list of the line last read
  call,              \* history: the last _search_tokens call
  emitted,           \* the output line last printed
  reported,          \* history: files reported as unopenable
  searched,          \* history: files read to their end
  exception          \* the exception that ended the run, or "none"

vars == <<pc, color, COLORAMA_IMPORTED, colorize, notice, network_strings,
          diagnostics, ipv4_networks, ipv6_networks, built, target_files,
          fidx, target_file, count, line, line_tokens, call, emitted,
          reported, searched, exception>>

-----------------------------------------------------------------------------
(* Texts and networks *)

Txt(s) == [k |-> "txt", s |-> s]
Addr(v, a) == [k |-> "addr", v |-> v, a |-> a]
Cidr(v, a, p) == [k |-> "cidr", v |-> v, a |-> a, p |-> p]
Mask(v, a, m) == [k |-> "mask", v |-> v, a |-> a, m |-> m]
Net(v, a, p) == [k |-> "net", v |-> v, a |-> a, p |-> p]
ValueError == [k |-> "ValueError"]
None == [k |-> "None"]

Min(x, y) == IF x <= y THEN x ELSE y
Range(s) == {s[x] : x \in 1..Len(s)}

\* F applied to the value of x: x is evaluated once, before F uses it.
Apply(F(_), x) == CHOOSE y \in {F(v) : v \in {x}} : TRUE

max_prefixlen(v) == IF v = 4 THEN IPV4LENGTH ELSE IPV6LENGTH
ALL_ONES(v) == 2 ^ max_prefixlen(v) - 1

\* a & netmask(p): the address with the bits beyond the prefix cleared.
AndNetmask(v, a, p) == a - (a % (2 ^ (max_prefixlen(v) - p)))

network_address(n) == n.a
broadcast_address(n) == n.a + 2 ^ (max_prefixlen(n.v) - n.p) - 1

RECURSIVE TrailingZeroes(_)
TrailingZeroes(number) ==
  IF number % 2 = 1 THEN 0 ELSE 1 + TrailingZeroes(number \div 2)

count_righthand_zero_bits(number, bits) ==
  IF number = 0 THEN bits ELSE Min(bits, TrailingZeroes(number))

\* The prefix length of a mask of the form 1*0*, or -1 (ValueError).
prefix_from_ip_int(v, ip_int) ==
  LET trailing_zeroes == count_righthand_zero_bits(ip_int, max_prefixlen(v))
      prefixlen == max_prefixlen(v) - trailing_zeroes
      leading_ones == ip_int \div (2 ^ trailing_zeroes)
      all_ones == 2 ^ prefixlen - 1
  IN IF leading_ones # all_ones THEN -1 ELSE prefixlen

\* A dotted mask read as a netmask and, failing that, as a hostmask.
prefix_from_ip_string(v, m) ==
  LET asNetmask == prefix_from_ip_int(v, m)
  IN IF asNetmask >= 0 THEN asNetmask
     ELSE prefix_from_ip_int(v, ALL_ONES(v) - m)

\* The prefix length the text after the "/" stands for, or -1.
make_netmask(item) ==
  CASE item.k = "addr" -> max_prefixlen(item.v)
    [] item.k = "cidr" -> IF item.p <= max_prefixlen(item.v) THEN item.p ELSE -1
    [] item.k = "mask" -> IF item.v = 4 THEN prefix_from_ip_string(4, item.m) ELSE -1
    [] OTHER -> -1

\* ipaddress.ip_network(item), strict: host bits set are an error.
ip_network(item) ==
  LET p == make_netmask(item)
  IN IF p < 0 THEN ValueError
     ELSE IF AndNetmask(item.v, item.a, p) # item.a THEN ValueError
     ELSE Net(item.v, item.a, p)

\* ipaddress.ip_interface(item).network: host bits are cleared.
ip_interface_network(item) ==
  LET p == make_netmask(item)
  IN IF p < 0 THEN ValueError
     ELSE Net(item.v, AndNetmask(item.v, item.a, p), p)

string_to_network(item) ==
  LET n == ip_network(item)
  IN IF n.k = "net" THEN n
     ELSE LET m == ip_interface_network(item)
          IN IF m.k = "net" THEN m ELSE item

strings_to_networks(strings) ==
  [x \in 1..Len(strings) |-> string_to_network(strings[x])]

IsStr(item) == item.k # "net"
IsIPv4Network(item) == item.k = "net" /\ item.v = 4
IsIPv6Network(item) == item.k = "net" /\ item.v = 6

-----------------------------------------------------------------------------
(* ipaddress.collapse_addresses *)

\* Order of networks: by network address, then by netmask.
NetLess(x, y) == x.a < y.a \/ (x.a = y.a /\ x.p < y.p)

RECURSIVE SortedNets(_)
SortedNets(S) ==
  IF S = {} THEN <<>>
  ELSE LET least == CHOOSE x \in S : \A y \in S \ {x} : NetLess(x, y)
       IN <<least>> \o SortedNets(S \ {least})

RECURSIVE SortedInts(_)
SortedInts(S) ==
  IF S = {} THEN <<>>
  ELSE LET least == CHOOSE x \in S : \A y \in S : x <= y
       IN <<least>> \o SortedInts(S \ {least})

\* The runs of consecutive addresses of a sorted list, as <<first, last>>.
RECURSIVE find_address_range(_, _, _, _)
find_address_range(addresses, x, first, last) ==
  IF x > Len(addresses) THEN << <<first, last>> >>
  ELSE IF addresses[x] # last + 1
       THEN << <<first, last>> >>
            \o find_address_range(addresses, x + 1, addresses[x], addresses[x])
       ELSE find_address_range(addresses, x + 1, first, addresses[x])

\* (n).bit_length() - 1 for n >= 1
RECURSIVE Log2(_)
Log2(n) == IF n <= 1 THEN 0 ELSE 1 + Log2(n \div 2)

RECURSIVE summarize_address_range(_, _, _)
summarize_address_range(v, first_int, last_int) ==
  IF first_int > last_int THEN <<>>
  ELSE LET nbits == Min(count_righthand_zero_bits(first_int, max_prefixlen(v)),
                        Log2(last_int - first_int + 1))
           net == Net(v, first_int, max_prefixlen(v) - nbits)
           next == first_int + 2 ^ nbits
       IN IF next - 1 = ALL_ONES(v) THEN <<net>>
          ELSE <<net>> \o summarize_address_range(v, next, last_int)

RECURSIVE SummarizeRanges(_, _)
SummarizeRanges(v, ranges) ==
  IF ranges = <<>> THEN <<>>
  ELSE summarize_address_range(v, Head(ranges)[1], Head(ranges)[2])
       \o SummarizeRanges(v, Tail(ranges))

supernet(n) ==
  IF n.p = 0 THEN n ELSE Net(n.v, AndNetmask(n.v, n.a, n.p - 1), n.p - 1)

\* The merge loop: subnets is the dictionary, a set of [key, val].
RECURSIVE MergeLoop(_, _)
MergeLoop(to_merge, subnets) ==
  IF to_merge = <<>> THEN subnets
  ELSE LET net == to_merge[Len(to_merge)]
           rest == SubSeq(to_merge, 1, Len(to_merge) - 1)
           sup == supernet(net)
           existing == {e \in subnets : e.key = sup}
       IN IF existing = {}
          THEN MergeLoop(rest, subnets \cup {[key |-> sup, val |-> net]})
          ELSE IF \E e \in existing : e.val # net
               THEN MergeLoop(Append(rest, sup), subnets \ existing)
               ELSE MergeLoop(rest, subnets)

\* The second loop: skip the networks the last yielded one covers.
RECURSIVE SkipSubsumed(_, _, _)
SkipSubsumed(sorted, x, last) ==
  IF x > Len(sorted) THEN <<>>
  ELSE IF last.k = "net" /\ broadcast_address(last) >= broadcast_address(sorted[x])
       THEN SkipSubsumed(sorted, x + 1, last)
       ELSE <<sorted[x]>> \o SkipSubsumed(sorted, x + 1, sorted[x])

collapse_without_merge(addresses) ==
  SkipSubsumed(SortedNets(Range(addresses)), 1, None)

collapse_addresses_internal(addresses) ==
  LET subnets == MergeLoop(addresses, {})
  IN SkipSubsumed(SortedNets({e.val : e \in subnets}), 1, None)

collapse_addresses(v, addresses) ==
  LET X == 1..Len(addresses)
      ips == SortedInts({addresses[x].a : x \in {y \in X : addresses[y].p = max_prefixlen(v)}})
      nets == SelectSeq(addresses, LAMBDA n : n.p # max_prefixlen(v))
      addrs == IF ips = <<>> THEN <<>>
               ELSE SummarizeRanges(v, find_address_range(ips, 2, ips[1], ips[1]))
  IN collapse_addresses_internal(addrs \o nets)

-----------------------------------------------------------------------------
(* _clean_up_networks *)

DeleteAt(s, x) == SubSeq(s, 1, x - 1) \o SubSeq(s, x + 1, Len(s))

\* The for loop of lines 68-79 over the list it edits; i is the iterator's
\* 0-based index.
RECURSIVE CleanLoop(_)
CleanBody(st) ==
  LET item == st.ip_networks[st.i + 1]
  IN CASE IsStr(item) ->
            [st EXCEPT !.printed = Append(@, item),
                       !.ip_networks = DeleteAt(@, st.i + 1),
                       !.i = @ + 1]
       [] IsIPv4Network(item) ->
            [st EXCEPT !.ip4_nets = Append(@, item), !.i = @ + 1]
       [] OTHER ->
            [st EXCEPT !.ip6_nets = Append(@, item), !.i = @ + 1]

CleanLoop(st) ==
  Apply(LAMBDA s : IF s.i >= Len(s.ip_networks) THEN s
                   ELSE CleanLoop(CleanBody(s)), st)

\* The returned pair and what was printed.
clean_up_networks(strings) ==
  Apply(LAMBDA st : [ipv4 |-> collapse_addresses(4, st.ip4_nets),
                     ipv6 |-> collapse_addresses(6, st.ip6_nets),
                     printed |-> st.printed],
        CleanLoop([ip_networks |-> strings_to_networks(strings), i |-> 0,
                   ip4_nets |-> <<>>, ip6_nets |-> <<>>, printed |-> <<>>]))

-----------------------------------------------------------------------------
(* _search_tokens *)

\* b.network_address <= a.network_address and
\* b.broadcast_address >= a.broadcast_address.  (The library raises TypeError
\* on networks of two versions; each list scanned holds the token's family.)
subnet_of_base_only(a, b) ==
  network_address(b) <= network_address(a)

subnet_of(a, b) ==
  /\ network_address(b) <= network_address(a)
  /\ broadcast_address(b) >= broadcast_address(a)

\* The scan of lines 182-186 and 190-193: stop at the first net that holds
\* the token.
RECURSIVE MatchesAny(_, _, _)
MatchesAny(token, nets, x) ==
  IF x > Len(nets) THEN FALSE
  ELSE IF subnet_of(token, nets[x]) THEN TRUE
  ELSE MatchesAny(token, nets, x + 1)

\* Line 169: a host network that is not the last token.
LooksAhead(token, i, ip_tokens) ==
  token.p = IPV4LENGTH /\ (i + 1) < Len(ip_tokens)

NextIsIPv4(next_token) ==
  IsIPv4Network(next_token)

\* Line 172: the next token is an IPv4 host network.
NextIsHost(next_token) ==
  IsIPv4Network(next_token) /\ next_token.p = IPV4LENGTH

\* Lines 173-175: the text "<address of token>/<address of next token>".
PairString(token, next_token) ==
  Mask(4, network_address(token), network_address(next_token))

OverwriteCallersToken(st, j, new_token) ==
  [st EXCEPT !.ip_tokens[j + 1] = new_token, !.tokens[j + 1] = new_token]

\* Line 178: the merged network replaces the parsed next token.
Overwrite(st, j, new_token) ==
  [st EXCEPT !.ip_tokens[j + 1] = new_token]

PairMergeSkippingOne(st, i, token) ==
  IF ~(token.p = IPV4LENGTH /\ (i + 2) < Len(st.ip_tokens))
  THEN [st |-> st, token |-> token]
  ELSE LET j == i + 2
           next_token == st.ip_tokens[j + 1]
       IN IF ~NextIsHost(next_token) THEN [st |-> st, token |-> token]
          ELSE LET new_token == string_to_network(PairString(token, next_token))
                   tried == [st EXCEPT !.attempts = @ \cup {i}]
               IN IF IsIPv4Network(new_token)
                  THEN [st |-> [Overwrite(tried, j, new_token)
                                  EXCEPT !.merged = @ \cup {i}],
                        token |-> new_token]
                  ELSE [st |-> tried, token |-> token]

\* Lines 166-178: the network position i is judged as, and the state after
\* the look-ahead.  attempts and merged record the positions where the merge
\* was tried (line 173 reached) and where it succeeded.
PairMerge(st, i, token) ==
  IF ~LooksAhead(token, i, st.ip_tokens) THEN [st |-> st, token |-> token]
  ELSE LET j == i + 1
           next_token == st.ip_tokens[j + 1]
       IN IF ~NextIsHost(next_token) THEN [st |-> st, token |-> token]
          ELSE LET new_token == string_to_network(PairString(token, next_token))
                   tried == [st EXCEPT !.attempts = @ \cup {i}]
               IN IF IsIPv4Network(new_token)
                  THEN [st |-> [Overwrite(tried, j, new_token)
                                  EXCEPT !.merged = @ \cup {i}],
                        token |-> new_token]
                  ELSE [st |-> tried, token |-> token]

\* The body of the loop of lines 164-193 at position i.  work records the
\* network each position was judged as.
SearchBody(st, i) ==
  LET token == st.ip_tokens[i + 1]
  IN IF IsIPv4Network(token)
     THEN LET m == PairMerge(st, i, token)
              judged == [m.st EXCEPT !.work[i + 1] = m.token]
          IN IF MatchesAny(m.token, judged.ipv4_networks, 1)
             THEN [judged EXCEPT !.result = Append(@, i)]
             ELSE judged
     ELSE IF IsIPv6Network(token)
     THEN LET judged == [st EXCEPT !.work[i + 1] = token]
          IN IF MatchesAny(token, judged.ipv6_networks, 1)
             THEN [judged EXCEPT !.result = Append(@, i)]
             ELSE judged
     ELSE st

RECURSIVE SearchLoop(_, _)
SearchLoop(st, i) ==
  Apply(LAMBDA s : IF i >= Len(s.ip_tokens) THEN s
                   ELSE SearchLoop(SearchBody(s, i), i + 1), st)

\* _search_tokens: result is the returned list; tokens, ipv4_networks and
\* ipv6_networks are the caller's three lists as the call leaves them.
search_tokens(tokens, ipv4, ipv6) ==
  SearchLoop([tokens |-> tokens, ipv4_networks |-> ipv4, ipv6_networks |-> ipv6,
              ip_tokens |-> strings_to_networks(tokens),
              result |-> <<>>,
              work |-> [x \in 1..Len(tokens) |-> None],
              attempts |-> {}, merged |-> {}], 0)

-----------------------------------------------------------------------------
(* _build_output_line *)

Highlight(t) == [k |-> "hl", t |-> t]
Plain(t) == IF t.k = "hl" THEN t.t ELSE t

\* Lines 33-46.  file_name and line_number are coloured with the separator;
\* line_tokens is the caller's list, which lines 37-41 edit in place.
build_output_line(file_name, line_number, tokens, matched_tokens, colorized) ==
  LET coloured == colorized = "true" /\ COLORAMA_IMPORTED
      shown == [x \in 1..Len(tokens) |->
                  IF coloured /\ (x - 1) \in Range(matched_tokens)
                  THEN Highlight(tokens[x]) ELSE tokens[x]]
  IN [k |-> "line", file_name |-> file_name, line_number |-> line_number,
      line_tokens |-> shown, coloured |-> coloured]

-----------------------------------------------------------------------------
(* Inputs *)

\* The IPv4 networks inside the first block of eight addresses, the whole
\* address space and the last address, each in its canonical text.
BlockPrefix == IPV4LENGTH - 3
V4Nets ==
  {Net(4, a, p) : a \in 0..7, p \in BlockPrefix..IPV4LENGTH} \cup
  {Net(4, 0, 0), Net(4, ALL_ONES(4), IPV4LENGTH)}
CanonicalV4Nets == {n \in V4Nets : AndNetmask(4, n.a, n.p) = n.a}
NetText(n) ==
  IF n.p = max_prefixlen(n.v) THEN Addr(n.v, n.a) ELSE Cidr(n.v, n.a, n.p)

\* What a network list may hold: networks in canonical text, a CIDR with host
\* bits set, an address with a dotted mask, a prefix that is too long, text
\* that is no network, and IPv6 networks.
BuildStrings ==
  {NetText(n) : n \in CanonicalV4Nets} \cup
  {Cidr(4, 5, IPV4LENGTH - 1), Mask(4, 4, ALL_ONES(4) - 1),
   Cidr(4, 0, IPV4LENGTH + 1), Txt("not-an-ip"),
   Addr(6, 0), Addr(6, 1), Cidr(6, 0, IPV6LENGTH - 1), Cidr(6, 2, IPV6LENGTH - 1)}

SeqsUpTo(S, n) == UNION {[1..m -> S] : m \in 0..n}

BuildLists == SeqsUpTo(BuildStrings, MaxStrings)

\* The tokens of a line: text, hosts that read as a netmask (all ones, all
\* ones but the last bit, zero), as a hostmask (1), as no mask (2) and a
\* plain host (5), CIDR and masked forms, and IPv6.
LineTokens ==
  {Txt("x"),
   Addr(4, 0), Addr(4, 1), Addr(4, 2), Addr(4, 5),
   Addr(4, ALL_ONES(4) - 1), Addr(4, ALL_ONES(4)),
   Cidr(4, 4, IPV4LENGTH - 2), Cidr(4, 5, IPV4LENGTH - 1),
   Mask(4, 5, ALL_ONES(4) - 1),
   Addr(6, 1), Cidr(6, 0, IPV6LENGTH - 1)}

Lines == SeqsUpTo(LineTokens, MaxTokens) \ {<<>>}

\* The network lists the matcher is checked against.
TargetLists ==
  {<<Addr(4, 5)>>,
   <<Cidr(4, 4, IPV4LENGTH - 2)>>,
   <<Addr(4, ALL_ONES(4)), Cidr(6, 0, IPV6LENGTH - 1)>>,
   <<Addr(4, 5), Cidr(4, 0, IPV4LENGTH - 1)>>,
   <<Cidr(4, 0, 0), Addr(6, 1)>>,
   <<Addr(4, 0), Addr(4, 2), Addr(6, 0)>>,
   <<Txt("not-an-ip"), Addr(4, 5)>>,
   <<>>}

\* The lines and lists of the whole-run specification.
FewLines == {<<Txt("x")>>, <<Txt("x"), Addr(4, 5)>>, <<Cidr(4, 4, IPV4LENGTH - 2)>>}
FewLists == {<<Cidr(4, 4, IPV4LENGTH - 2)>>}

\* The lines that follow the first line of a file the matcher is checked on.
LaterLines ==
  {<<Addr(4, 5), Addr(4, ALL_ONES(4)), Addr(4, 0)>>,
   <<Txt("x"), Addr(4, 5), Addr(4, ALL_ONES(4) - 1)>>,
   <<Cidr(6, 0, IPV6LENGTH - 1), Txt("x")>>}

File(openable, nlines) == [openable |-> openable, nlines |-> nlines]
FileLists ==
  SeqsUpTo({File(o, n) : o \in BOOLEAN, n \in 0..MaxLines}, MaxFiles) \ {<<>>}

NoCall ==
  [tokens |-> <<>>, ipv4_networks |-> <<>>, ipv6_networks |-> <<>>,
   ip_tokens |-> <<>>, result |-> <<>>, work |-> <<>>,
   attempts |-> {}, merged |-> {}]

-----------------------------------------------------------------------------
(* main and _search_files *)

Start(colors, imported, lists, files) ==
  /\ pc = "color"
  /\ color \in colors
  /\ COLORAMA_IMPORTED \in imported
  /\ network_strings \in lists
  /\ target_files \in files
  /\ colorize = "unbound"
  /\ notice = FALSE
  /\ diagnostics = <<>>
  /\ ipv4_networks = <<>>
  /\ ipv6_networks = <<>>
  /\ built = [ipv4 |-> <<>>, ipv6 |-> <<>>]
  /\ fidx = 0
  /\ target_file = 0
  /\ count = 0
  /\ line = <<>>
  /\ line_tokens = <<>>
  /\ call = NoCall
  /\ emitted = None
  /\ reported = {}
  /\ searched = {}
  /\ exception = "none"

\* Lines 246-256.
HandleColor ==
  /\ pc = "color"
  /\ IF color # "never" /\ ~COLORAMA_IMPORTED
     THEN notice' = TRUE /\ colorize' = colorize
     ELSE /\ notice' = notice
          /\ colorize' = IF color \in {"auto", "always"} /\ COLORAMA_IMPORTED
                         THEN "true" ELSE "false"
  /\ pc' = "networks"
  /\ UNCHANGED <<color, COLORAMA_IMPORTED, network_strings, diagnostics,
                 ipv4_networks, ipv6_networks, built, target_files, fidx,
                 target_file, count, line, line_tokens, call, emitted,
                 reported, searched, exception>>

\* Lines 258-269.
HandleNetworks ==
  /\ pc = "networks"
  /\ \E r \in {clean_up_networks(network_strings)} :
        /\ ipv4_networks' = r.ipv4
        /\ ipv6_networks' = r.ipv6
        /\ diagnostics' = r.printed
        /\ built' = [ipv4 |-> r.ipv4, ipv6 |-> r.ipv6]
  /\ pc' = "search"
  /\ UNCHANGED <<color, COLORAMA_IMPORTED, colorize, notice, network_strings,
                 target_files, fidx, target_file, count, line, line_tokens,
                 call, emitted, reported, searched, exception>>

\* Line 277: the call reads colorize.
CallSearchFiles ==
  /\ pc = "search"
  /\ IF colorize = "unbound"
     THEN pc' = "crashed" /\ exception' = "UnboundLocalError: colorize"
     ELSE pc' = "files" /\ exception' = exception
  /\ UNCHANGED <<color, COLORAMA_IMPORTED, colorize, notice, network_strings,
                 diagnostics, ipv4_networks, ipv6_networks, built,
                 target_files, fidx, target_file, count, line, line_tokens,
                 call, emitted, reported, searched>>

\* Lines 117-123: the file opens.
OpenTarget ==
  /\ pc = "files"
  /\ fidx < Len(target_files)
  /\ target_files[fidx + 1].openable
  /\ target_file' = fidx + 1
  /\ count' = 0
  /\ pc' = "lines"
  /\ UNCHANGED <<color, COLORAMA_IMPORTED, colorize, notice, network_strings,
                 diagnostics, ipv4_networks, ipv6_networks, built,
                 target_files, fidx, line, line_tokens, call, emitted,
                 reported, searched, exception>>

\* Lines 120-121 and 147-149: the file does not open; it is reported, and the
\* finally clause closes whatever target_file names.
OpenFailed ==
  /\ pc = "files"
  /\ fidx < Len(target_files)
  /\ ~target_files[fidx + 1].openable
  /\ reported' = reported \cup {fidx}
  /\ IF target_file = 0
     THEN /\ pc' = "crashed"
          /\ exception' = "UnboundLocalError: target_file"
          /\ fidx' = fidx
     ELSE /\ pc' = pc
          /\ exception' = exception
          /\ fidx' = fidx + 1
  /\ UNCHANGED <<color, COLORAMA_IMPORTED, colorize, notice, network_strings,
                 diagnostics, ipv4_networks, ipv6_networks, built,
                 target_files, target_file, count, line, line_tokens, call,
                 emitted, searched>>

\* Lines 126-146: a line is read, split, searched and, with a match, printed.
ReadLineFrom(lines) ==
  /\ pc = "lines"
  /\ count < target_files[fidx + 1].nlines
  /\ \E l \in lines :
     \E r \in {search_tokens(l, ipv4_networks, ipv6_networks)} :
     \E out \in {build_output_line(fidx, count + 1, r.tokens, r.result, colorize)} :
          /\ line' = l
          /\ call' = r
          /\ ipv4_networks' = r.ipv4_networks
          /\ ipv6_networks' = r.ipv6_networks
          /\ IF Len(r.result) > 0
             THEN emitted' = out /\ line_tokens' = out.line_tokens
             ELSE emitted' = None /\ line_tokens' = r.tokens
  /\ count' = count + 1
  /\ UNCHANGED <<pc, color, COLORAMA_IMPORTED, colorize, notice,
                 network_strings, diagnostics, built, target_files, fidx,
                 target_file, reported, searched, exception>>

ReadLine == ReadLineFrom(FewLines)

\* Any line first, then one of a few lines.
ReadAnyLine == ReadLineFrom(IF count = 0 THEN Lines ELSE LaterLines)

\* Lines 127-134 and 147-149: the end of the file; it is closed.
EndOfFile ==
  /\ pc = "lines"
  /\ count = target_files[fidx + 1].nlines
  /\ count' = count + 1
  /\ searched' = searched \cup {fidx}
  /\ fidx' = fidx + 1
  /\ pc' = "files"
  /\ UNCHANGED <<color, COLORAMA_IMPORTED, colorize, notice, network_strings,
                 diagnostics, ipv4_networks, ipv6_networks, built,
                 target_files, target_file, line, line_tokens, call, emitted,
                 reported, exception>>

\* The for loop of line 117 is exhausted.
Return ==
  /\ pc = "files"
  /\ fidx = Len(target_files)
  /\ pc' = "done"
  /\ UNCHANGED <<color, COLORAMA_IMPORTED, colorize, notice, network_strings,
                 diagnostics, ipv4_networks, ipv6_networks, built,
                 target_files, fidx, target_file, count, line, line_tokens,
                 call, emitted, reported, searched, exception>>

\* The whole run, over every colour option and every list of target files.
Init ==
  Start({"never", "always", "auto"}, BOOLEAN, FewLists, FileLists)

Next ==
  \/ HandleColor
  \/ HandleNetworks
  \/ CallSearchFiles
  \/ OpenTarget
  \/ OpenFailed
  \/ ReadLine
  \/ EndOfFile
  \/ Return

Spec == Init /\ [][Next]_vars

\* The network set builder, over every list of network strings.
InitBuild ==
  Start({"never"}, {TRUE}, BuildLists, {<<File(TRUE, 0)>>})

NextBuild ==
  \/ HandleColor
  \/ HandleNetworks

SpecBuild == InitBuild /\ [][NextBuild]_vars

\* The matcher, over every line, with and without colour.
InitMatch ==
  Start({"never", "always"}, {TRUE}, TargetLists, {<<File(TRUE, 2)>>})

NextMatch ==
  \/ HandleColor
  \/ HandleNetworks
  \/ CallSearchFiles
  \/ OpenTarget
  \/ ReadAnyLine
  \/ EndOfFile
  \/ Return

SpecMatch == InitMatch /\ [][NextMatch]_vars

\* The matcher, over every line, against two target sets.
InitLocal ==
  Start({"never"}, {TRUE},
        {<<Cidr(4, 4, IPV4LENGTH - 2), Addr(6, 1)>>,
         <<Addr(4, 0), Cidr(4, ALL_ONES(4) - 1, IPV4LENGTH - 1)>>},
        {<<File(TRUE, 2)>>})

SpecLocal == InitLocal /\ [][NextMatch]_vars

-----------------------------------------------------------------------------
(* Properties *)

Positions(tokens) == 0..(Len(tokens) - 1)
Parsed(tokens, i) == string_to_network(tokens[i + 1])
IsHostV4(n) == IsIPv4Network(n) /\ n.p = IPV4LENGTH
Parses(string) == string_to_network(string).k = "net"

\* Containment by prefix: the target's prefix is no longer than the
\* candidate's and the candidate's base, masked to it, is the target's base.
Contains(target, candidate) ==
  /\ target.v = candidate.v
  /\ target.p <= candidate.p
  /\ AndNetmask(candidate.v, candidate.a, target.p) = target.a

Addresses(n) == network_address(n)..broadcast_address(n)
Covered(nets) == UNION {Addresses(nets[x]) : x \in 1..Len(nets)}
FamilySet(v) == IF v = 4 THEN ipv4_networks ELSE ipv6_networks

Searched == line # <<>>
Built == pc = "search"

\* C1: _search_tokens returns position i exactly when token i has a network
\* interpretation and the network it is judged as (the parsed one, or the
\* merged one of a pair) lies, by prefix containment, in a member of the
\* target set of its own family; no position is returned twice.
C1_ResultIsContainment ==
  Searched =>
    /\ \A x \in 1..Len(ipv4_networks) : IsIPv4Network(ipv4_networks[x])
    /\ \A x \in 1..Len(ipv6_networks) : IsIPv6Network(ipv6_networks[x])
    /\ Len(call.result) = Cardinality(Range(call.result))
    /\ \A i \in Positions(line) :
         LET parsed == Parsed(line, i)
             work == call.work[i + 1]
         IN /\ (work.k = "net") = (parsed.k = "net")
            /\ work.k = "net" => work.v = parsed.v
            /\ (work.k = "net" /\ i \notin call.merged /\ (i - 1) \notin call.merged)
                 => work = parsed
            /\ (i \in call.merged) =>
                 /\ work.p = prefix_from_ip_string(4, Parsed(line, i + 1).a)
                 /\ work.a = AndNetmask(4, work.a, work.p)
                 /\ work = call.ip_tokens[i + 2]
            /\ (i \in Range(call.result)) =
                 (/\ work.k = "net"
                  /\ \E target \in Range(FamilySet(work.v)) : Contains(target, work))

C1_Witness ==
  /\ Searched
  /\ \E i \in call.merged : i \in Range(call.result)
  /\ \E i \in Range(call.result) : IsIPv6Network(call.work[i + 1])

\* C2: every string that parses as a network is kept by _clean_up_networks:
\* its addresses are covered by the returned set of its family, and only
\* strings that do not parse are reported.
C2_ParsedStringsKept ==
  Built =>
    /\ \A x \in 1..Len(network_strings) :
         LET n == string_to_network(network_strings[x])
         IN n.k = "net" => Addresses(n) \subseteq Covered(FamilySet(n.v))
    /\ \A x \in 1..Len(diagnostics) : ~Parses(diagnostics[x])

\* C3: when the pair-merge succeeds at positions i and i+1, both are judged
\* as the same merged network, so i is in the result exactly when i+1 is.
C3_PairJudgedAlike ==
  Searched =>
    \A i \in call.merged :
      (i \in Range(call.result)) = ((i + 1) \in Range(call.result))

\* C4: a pair-merge is attempted at i only when the texts at i and at i+1,
\* each parsed on its own, are IPv4 host networks.
C4_MergeOnlyOfHosts ==
  Searched =>
    \A i \in call.attempts :
      /\ i + 1 < Len(line)
      /\ IsHostV4(Parsed(line, i))
      /\ IsHostV4(Parsed(line, i + 1))

\* The merge is attempted at a position an earlier merge overwrote.
C4_Witness ==
  /\ Searched
  /\ \E i \in call.attempts : (i - 1) \in call.merged

\* C5: _clean_up_networks reports each string that does not parse, once and
\* in order.
C5_OneDiagnosticEach ==
  Built => diagnostics = SelectSeq(network_strings, LAMBDA t : ~Parses(t))

\* C6: in _search_files every unopenable file is reported and skipped, every
\* openable file is read to its end, and no open failure ends the run.
C6_OpenFailureSkipsFile ==
  /\ exception # "UnboundLocalError: target_file"
  /\ pc = "done" =>
       \A f \in Positions(target_files) :
         IF target_files[f + 1].openable THEN f \in searched ELSE f \in reported

Adjacent(x, y) == x.p = y.p /\ x.p > 0 /\ x # y /\ supernet(x) = supernet(y)

Canonical(v, nets) ==
  /\ \A x \in 1..Len(nets) :
       /\ nets[x].k = "net" /\ nets[x].v = v
       /\ AndNetmask(v, nets[x].a, nets[x].p) = nets[x].a
  /\ \A x, y \in 1..Len(nets) :
       x < y => /\ nets[x].a < nets[y].a
                /\ broadcast_address(nets[x]) < nets[y].a
                /\ ~Adjacent(nets[x], nets[y])

InputAddresses(v) ==
  UNION {Addresses(string_to_network(network_strings[x])) :
           x \in {y \in 1..Len(network_strings) :
                    /\ Parses(network_strings[y])
                    /\ string_to_network(network_strings[y]).v = v}}

\* C7: each set _clean_up_networks returns is in canonical collapsed form:
\* strictly ascending, no overlap, no two siblings that make their parent;
\* it covers no address outside the inputs of its family (none at all when
\* the family has no input) and, when every string parses, all of them.
C7_SetsAreCanonical ==
  Built =>
    \A v \in {4, 6} :
      /\ Canonical(v, FamilySet(v))
      /\ Covered(FamilySet(v)) \subseteq InputAddresses(v)
      /\ (\A x \in 1..Len(network_strings) : Parses(network_strings[x]))
           => Covered(FamilySet(v)) = InputAddresses(v)

\* Two sibling halves, given twice over, collapse into their parent.
C7_Witness ==
  /\ Built
  /\ network_strings = <<Cidr(4, 4, BlockPrefix + 1), Cidr(4, 0, BlockPrefix + 1),
                         Cidr(4, 4, BlockPrefix + 1)>>
  /\ ipv4_networks = <<Net(4, 0, BlockPrefix)>>
  /\ ipv6_networks = <<>>

\* C8: whether position i is in the result depends only on the tokens at
\* i-1, i and i+1: another token at distance two or more changes nothing.
C8_ResultIsLocal ==
  Searched =>
    \A i, k \in Positions(line) :
      (i - k >= 2 \/ k - i >= 2) =>
        \A t \in LineTokens :
          (i \in Range(call.result)) =
            (i \in Range(search_tokens([line EXCEPT ![k + 1] = t],
                                       ipv4_networks, ipv6_networks).result))

\* C8, amended: whether position i is in the result depends only on the
\* tokens at positions 0 to i+1: another token at position i+2 or later
\* changes nothing.
C8_ResultIgnoresLaterTokens ==
  Searched =>
    \A i, k \in Positions(line) :
      k - i >= 2 =>
        \A t \in LineTokens :
          (i \in Range(call.result)) =
            (i \in Range(search_tokens([line EXCEPT ![k + 1] = t],
                                       ipv4_networks, ipv6_networks).result))

\* A pair merged and matched at position 0, with a host two positions on.
C8_Witness ==
  /\ Searched
  /\ Len(line) >= 3
  /\ 0 \in call.merged
  /\ 0 \in Range(call.result)
  /\ IsHostV4(Parsed(line, 2))

\* C9: _search_tokens leaves the caller's token list and both target sets as
\* they were: after any calls the sets are the sets as built, the result is
\* that of the line alone against them, and the printed line carries the
\* tokens as read.
C9_CallerStateUnchanged ==
  /\ pc \notin {"color", "networks"} =>
       ipv4_networks = built.ipv4 /\ ipv6_networks = built.ipv6
  /\ Searched =>
       /\ call.tokens = line
       /\ call.result = search_tokens(line, built.ipv4, built.ipv6).result
       /\ emitted.k = "line" =>
            [x \in 1..Len(emitted.line_tokens) |-> Plain(emitted.line_tokens[x])] = line

\* A second line, with a merged pair, matched and printed in colour.
C9_Witness ==
  /\ Searched
  /\ count = 2
  /\ call.merged # {}
  /\ emitted.k = "line"
  /\ emitted.coloured

\* C10: main reaches the file search with colorize defined for every colour
\* option and either availability of the library; without the library a
\* notice is printed, the files are searched and nothing is highlighted.
C10_ColorizeDefined ==
  /\ pc = "search" => colorize # "unbound"
  /\ exception # "UnboundLocalError: colorize"
  /\ (color # "never" /\ ~COLORAMA_IMPORTED /\ pc # "color") => notice
  /\ (emitted.k = "line" /\ ~COLORAMA_IMPORTED) => ~emitted.coloured

=============================================================================
